---- MODULE Spec2Model ----
(***************************************************************************)
(* Star-schema construction of the bank-churn data warehouse               *)
(* (src/src/data/dwh_etl.py): the four dimension builders, the fact        *)
(* builder, the writer and run_etl_pipeline, with the pandas operations    *)
(* they call modelled by what they do on small tables.                     *)
(*                                                                         *)
(* Text is a sequence of code points, so that Python's string order        *)
(* (sorted, sort_values on object columns) is the lexicographic order of   *)
(* the sequences.  A DataFrame is a record                                 *)
(*   [index |-> row labels, dtype |-> dtype of the two group columns,      *)
(*    rows  |-> sequence of rows].                                         *)
(*                                                                         *)
(* pandas behaviour the model relies on: unique / drop_duplicates take all *)
(* NaN for one value; sorted raises TypeError on a str next to NaN;        *)
(* sort_values puts NaN last and orders an ordered categorical by its      *)
(* categories; astype(str) turns NaN into 'nan'; merge matches null keys   *)
(* with each other and keeps the left order; text columns read by read_csv *)
(* have dtype object.  Amounts are whole numbers.                          *)
(*                                                                         *)
(* Spec        : one run of run_etl_pipeline on a cleaned CSV              *)
(* SpecDirect  : the builders called on the table preprocess_data returns, *)
(*               then again on that table saved and read back              *)
(* SpecReorder : build_dim_geo on a source and on a reordering of it       *)
(* SpecFact    : build_fact_customer_status on dimension tables the caller *)
(*               supplies                                                  *)
(* SpecSchema  : one run on a cleaned CSV that may lack a column           *)
(* SpecRuns    : two runs in a row, the five files written in any order    *)
(* SpecAnyOrder: the four dimension builders called in any order           *)
(* SpecFaults  : runs one after the other from an empty directory, where   *)
(*               the load, a builder or a write may raise                  *)
(* SpecPreprocess : preprocess_data on a raw table                         *)
(* SpecAgeGroups  : create_age_groups on ages around the bin edges         *)
(* SpecDashboard  : one run, then ChurnDashboard.load_data                 *)
(***************************************************************************)
EXTENDS Integers, Sequences, FiniteSets, TLC

VARIABLES
    pc,            \* last completed statement of the run
    clean_file,    \* rows of the cleaned CSV (CLEAN_CHURN_FILE), as text cells
    df,            \* the source DataFrame the builders work on
    dim_geo, dim_time, dim_segment, dim_customer, fact,
    files,         \* the five output files: name -> [exists, header, rows]
    error,         \* exception that ended the run, "" if none
    prev,          \* results of the previous build on a related source
    columns,       \* column names of the source table (df.columns)
    written,       \* names of the output files this run has written
    df_processed,  \* the table preprocess.py returns
    dashboard      \* the tables ChurnDashboard.load_data holds

vars == <<pc, clean_file, df, dim_geo, dim_time, dim_segment, dim_customer,
          fact, files, error, prev, columns, written, df_processed, dashboard>>

----------------------------------------------------------------------------
(* Bounds of the model *)

\* largest number of rows of an enumerated source table
MaxRows == 2

\* largest number of runs of the pipeline over one output directory
MaxRuns == 2

----------------------------------------------------------------------------
(* Text values *)

France  == <<70, 114, 97, 110, 99, 101>>
Germany == <<71, 101, 114, 109, 97, 110, 121>>
Le25    == <<60, 61, 50, 53>>          \* '<=25'
A26_35  == <<50, 54, 45, 51, 53>>      \* '26-35'
A36_45  == <<51, 54, 45, 52, 53>>      \* '36-45'
A46_55  == <<52, 54, 45, 53, 53>>      \* '46-55'
Ge56    == <<62, 61, 53, 54>>          \* '>=56'
Low     == <<76, 111, 119>>
Mid     == <<77, 105, 100>>
High    == <<72, 105, 103, 104>>
nan_str == <<110, 97, 110>>            \* 'nan', what str(float('nan')) gives
Female  == <<70, 101, 109, 97, 108, 101>>
Male    == <<77, 97, 108, 101>>
EmptyStr == <<>>

\* the missing value (numpy NaN) of a text or categorical column
NaN == <<0>>
\* the missing value of a key column after an unmatched left join
NullKey == -1

AGE_LABELS    == <<Le25, A26_35, A36_45, A46_55, Ge56>>
INCOME_LABELS == <<Low, Mid, High>>

SNAPSHOT_YEAR    == 2019
SNAPSHOT_MONTH   == 12
SNAPSHOT_QUARTER == 4

Range(s) == {s[i] : i \in 1..Len(s)}

Min(a, b) == IF a < b THEN a ELSE b

\* Python's < on str: lexicographic by code point, a proper prefix is smaller
StrLess(a, b) ==
    \E i \in 1..(Min(Len(a), Len(b)) + 1) :
        /\ \A j \in 1..(i - 1) : a[j] = b[j]
        /\ \/ i = Len(a) + 1 /\ i <= Len(b)
           \/ i <= Len(a) /\ i <= Len(b) /\ a[i] < b[i]

\* position of a label in an ordered categorical's categories
CatCode(labels, v) == CHOOSE i \in 1..Len(labels) : labels[i] = v

\* Series.astype(str) on one value: a label or string stays, NaN becomes 'nan'
astype_str(v) == IF v = NaN THEN nan_str ELSE v

----------------------------------------------------------------------------
(* pandas operations used by the builders *)

Column(rows, name) == [i \in 1..Len(rows) |-> rows[i][name]]

RangeIndex(n) == [i \in 1..n |-> i - 1]

\* unique with the duplicates kept (the call left out)
unique_keep_all(s) == s

\* Series.unique / DataFrame.drop_duplicates: first occurrences, in order of
\* appearance; all NaN count as one value
RECURSIVE unique(_)
unique(s) ==
    IF s = <<>> THEN <<>>
    ELSE LET r == unique(SubSeq(s, 1, Len(s) - 1))
             x == s[Len(s)]
         IN  IF x \in Range(r) THEN r ELSE Append(r, x)

\* sorted(list) raises TypeError when it has to compare a str with the float NaN
sorted_raises(s) == \E i, j \in 1..Len(s) : s[i] = NaN /\ s[j] # NaN

\* sorted with reverse=True
sorted_reverse(s) == SortSeq(s, LAMBDA a, b : StrLess(b, a))

\* the list left in order of appearance
sorted_noop(s) == s

\* sorted(list) of strings
sorted(s) == SortSeq(s, StrLess)

\* order of one sort key in sort_values: an ordered categorical compares by
\* category code, an object column by string; NaN goes last
ValueLess(dtype, labels, a, b) ==
    IF a = NaN THEN FALSE
    ELSE IF b = NaN THEN TRUE
    ELSE IF dtype = "category" THEN CatCode(labels, a) < CatCode(labels, b)
    ELSE StrLess(a, b)

\* sort_values(['IncomeGroup', 'AgeGroup']): the sort columns swapped
SegmentLess_income_first(dtype, p, q) ==
    \/ ValueLess(dtype, INCOME_LABELS, p[2], q[2])
    \/ p[2] = q[2] /\ ValueLess(dtype, AGE_LABELS, p[1], q[1])

\* sort_values(['AgeGroup', 'IncomeGroup']) on <<AgeGroup, IncomeGroup>> pairs
SegmentLess(dtype, p, q) ==
    \/ ValueLess(dtype, AGE_LABELS, p[1], q[1])
    \/ p[1] = q[1] /\ ValueLess(dtype, INCOME_LABELS, p[2], q[2])

sort_values(dtype, pairs) == SortSeq(pairs, LAMBDA p, q : SegmentLess(dtype, p, q))

\* rows of right matching a left key, in right order
Matches(key, rkeys) ==
    SelectSeq([j \in 1..Len(rkeys) |-> j], LAMBDA j : rkeys[j] = key)

\* DataFrame.merge(how='left', sort=True): the output rows in the order of the
\* join key, here the order of the matching right row, unmatched rows first
merge_sorted_on_key(lkeys, rkeys, i) ==
    LET key(a) == IF Matches(lkeys[a], rkeys) = <<>> THEN 0
                  ELSE Matches(lkeys[a], rkeys)[1]
        order  == SortSeq([a \in 1..Len(lkeys) |-> a],
                          LAMBDA x, y : key(x) < key(y) \/ (key(x) = key(y) /\ x < y))
    IN  [k \in 1..Len(order) |-> <<order[k], key(order[k])>>]

\* DataFrame.merge(how='left'): for every left row in order, one output row per
\* matching right row, or one row with no match (0); null keys match each other
RECURSIVE merge_left(_, _, _)
merge_left(lkeys, rkeys, i) ==
    IF i > Len(lkeys) THEN <<>>
    ELSE LET m == Matches(lkeys[i], rkeys)
             out == IF m = <<>> THEN << <<i, 0>> >>
                    ELSE [k \in 1..Len(m) |-> <<i, m[k]>>]
         IN  out \o merge_left(lkeys, rkeys, i + 1)

----------------------------------------------------------------------------
(* The cleaned CSV: save_clean_data writes it, run_etl_pipeline reads it *)

TextColumns == {"Geography", "Gender", "AgeGroup", "IncomeGroup",
                "country", "gender", "age_group", "income_group"}

\* tokens pd.read_csv takes for a missing value (those the model's text can spell)
NaValues == {EmptyStr, nan_str}

\* to_csv: a missing value is written as the empty field, a label as its text
CsvCell(v) == IF v = NaN THEN EmptyStr ELSE v

\* read_csv: a field spelling a missing value becomes NaN
ParseCell(t) == IF t \in NaValues THEN NaN ELSE t

\* one row written: the text columns field by field, numbers in decimal
CsvRow(row) ==
    [c \in DOMAIN row |-> IF c \in TextColumns THEN CsvCell(row[c]) ELSE row[c]]

\* one row read: the text columns field by field, numbers parsed back
ParseRow(row) ==
    [c \in DOMAIN row |-> IF c \in TextColumns THEN ParseCell(row[c]) ELSE row[c]]

\* DataFrame.to_csv(path, index=False): the row labels are not written
to_csv(d) == [i \in 1..Len(d.rows) |-> CsvRow(d.rows[i])]

\* pd.read_csv(path): fresh RangeIndex, text columns of dtype object
read_csv(file) ==
    [index |-> RangeIndex(Len(file)),
     dtype |-> "object",
     rows  |-> [i \in 1..Len(file) |-> ParseRow(file[i])]]

----------------------------------------------------------------------------
(* The builders of dwh_etl.py *)

build_dim_geo_raises(d) == sorted_raises(unique(Column(d.rows, "Geography")))

\* build_dim_geo with range(len(countries)): keys from 0
build_dim_geo_zero_based(d) ==
    LET countries == unique(Column(d.rows, "Geography"))
        srt == sorted(countries)
    IN  [i \in 1..Len(countries) |-> [geo_key |-> i - 1, country |-> srt[i]]]

build_dim_geo(d) ==
    LET countries == unique(Column(d.rows, "Geography"))
        srt == sorted(countries)
    IN  [i \in 1..Len(countries) |-> [geo_key |-> i, country |-> srt[i]]]

\* build_dim_time with month and quarter exchanged
build_dim_time_swapped ==
    << [time_key |-> 1, year |-> SNAPSHOT_YEAR, month |-> SNAPSHOT_QUARTER,
        quarter |-> SNAPSHOT_MONTH] >>

\* build_dim_time with a yyyymm key
build_dim_time_date_key ==
    << [time_key |-> SNAPSHOT_YEAR * 100 + SNAPSHOT_MONTH,
        year |-> SNAPSHOT_YEAR, month |-> SNAPSHOT_MONTH,
        quarter |-> SNAPSHOT_QUARTER] >>

build_dim_time ==
    << [time_key |-> 1, year |-> SNAPSHOT_YEAR, month |-> SNAPSHOT_MONTH,
        quarter |-> SNAPSHOT_QUARTER] >>

\* build_dim_segment without the two astype(str)
build_dim_segment_no_str(d) ==
    LET pairs == [i \in 1..Len(d.rows) |->
                     <<d.rows[i].AgeGroup, d.rows[i].IncomeGroup>>]
        segments == sort_values(d.dtype, unique(pairs))
    IN  [i \in 1..Len(segments) |->
            [segment_key  |-> i,
             age_group    |-> segments[i][1],
             income_group |-> segments[i][2]]]

build_dim_segment(d) ==
    LET pairs == [i \in 1..Len(d.rows) |->
                     <<d.rows[i].AgeGroup, d.rows[i].IncomeGroup>>]
        segments == sort_values(d.dtype, unique(pairs))
    IN  [i \in 1..Len(segments) |->
            [segment_key  |-> i,
             age_group    |-> astype_str(segments[i][1]),
             income_group |-> astype_str(segments[i][2])]]

\* build_dim_customer with customer_id taken from the row position
build_dim_customer_position_id(d) ==
    [i \in 1..Len(d.rows) |->
        [customer_key |-> i,
         customer_id  |-> i,
         gender       |-> d.rows[i].Gender,
         age          |-> d.rows[i].Age,
         tenure       |-> d.rows[i].Tenure]]

\* build_dim_customer with customer_key taken from the row label
build_dim_customer_label_key(d) ==
    [i \in 1..Len(d.rows) |->
        [customer_key |-> d.index[i] + 1,
         customer_id  |-> d.index[i] + 1,
         gender       |-> d.rows[i].Gender,
         age          |-> d.rows[i].Age,
         tenure       |-> d.rows[i].Tenure]]

build_dim_customer(d) ==
    [i \in 1..Len(d.rows) |->
        [customer_key |-> i,
         customer_id  |-> d.index[i] + 1,
         gender       |-> d.rows[i].Gender,
         age          |-> d.rows[i].Age,
         tenure       |-> d.rows[i].Tenure]]

build_fact_customer_status(d, dimc, dimg, dimt, dims) ==
    LET n  == Len(d.rows)
        \* fact = df.copy(); customer_key = range(1, n+1); time_key = 1
        f0 == [i \in 1..n |-> d.rows[i] @@ [customer_key |-> i, time_key |-> 1]]
        \* merge with dim_geo on Geography = country
        j1 == merge_left(Column(f0, "Geography"), Column(dimg, "country"), 1)
        f1 == [k \in 1..Len(j1) |->
                 f0[j1[k][1]] @@
                 [geo_key |-> IF j1[k][2] = 0 THEN NullKey
                              ELSE dimg[j1[k][2]].geo_key]]
        \* AgeGroup_str, IncomeGroup_str, merge with dim_segment on both
        k2 == [k \in 1..Len(f1) |->
                 <<astype_str(f1[k].AgeGroup), astype_str(f1[k].IncomeGroup)>>]
        r2 == [k \in 1..Len(dims) |-> <<dims[k].age_group, dims[k].income_group>>]
        j2 == merge_left(k2, r2, 1)
        f2 == [k \in 1..Len(j2) |->
                 f1[j2[k][1]] @@
                 [segment_key |-> IF j2[k][2] = 0 THEN NullKey
                                  ELSE dims[j2[k][2]].segment_key]]
    IN  [k \in 1..Len(f2) |->
            [customer_key     |-> f2[k].customer_key,
             time_key         |-> f2[k].time_key,
             geo_key          |-> f2[k].geo_key,
             segment_key      |-> f2[k].segment_key,
             balance          |-> f2[k].Balance,
             estimated_salary |-> f2[k].EstimatedSalary,
             num_of_products  |-> f2[k].NumOfProducts,
             credit_score     |-> f2[k].CreditScore,
             has_credit_card  |-> f2[k].HasCrCard,
             is_active_member |-> f2[k].IsActiveMember,
             churn_flag       |-> f2[k].Exited]]

----------------------------------------------------------------------------
(* Source tables the model enumerates *)

\* two customers of the data set, amounts in whole units
Customers ==
    { [Gender |-> Female, Age |-> 42, Tenure |-> 2, Balance |-> 0,
       EstimatedSalary |-> 101348, NumOfProducts |-> 1, CreditScore |-> 619,
       HasCrCard |-> 1, IsActiveMember |-> 1, Exited |-> 1],
      [Gender |-> Male, Age |-> 44, Tenure |-> 8, Balance |-> 113755,
       EstimatedSalary |-> 149756, NumOfProducts |-> 2, CreditScore |-> 645,
       HasCrCard |-> 0, IsActiveMember |-> 0, Exited |-> 0] }

GeographyValues   == {France, Germany, NaN}
AgeGroupValues    == {Le25, A26_35, NaN}
IncomeGroupValues == {Low, High}

SourceRows ==
    { c @@ [Geography |-> g, AgeGroup |-> a, IncomeGroup |-> i] :
        c \in Customers, g \in GeographyValues,
        a \in AgeGroupValues, i \in IncomeGroupValues }

ExampleCustomer == CHOOSE c \in Customers : c.Gender = Female

\* the three-row source of the end-to-end example:
\* (France, 26-35, Low), (Germany, 26-35, Low), (France, 46-55, High)
ExampleRows ==
    << ExampleCustomer @@ [Geography |-> France,  AgeGroup |-> A26_35, IncomeGroup |-> Low],
       ExampleCustomer @@ [Geography |-> Germany, AgeGroup |-> A26_35, IncomeGroup |-> Low],
       ExampleCustomer @@ [Geography |-> France,  AgeGroup |-> A46_55, IncomeGroup |-> High] >>

RowSeqs == UNION {[1..n -> SourceRows] : n \in 0..MaxRows} \cup {ExampleRows}

\* cleaned CSV files: the text form of the enumerated tables
CleanFiles == { [i \in 1..Len(r) |-> CsvRow(r[i])] : r \in RowSeqs }

EmptyFrame == [index |-> <<>>, dtype |-> "object", rows |-> <<>>]

\* a ChurnDashboard before load_data: no table read, dwh_data is None
NotLoaded ==
    [df |-> EmptyFrame, fact |-> <<>>, dim_customer |-> <<>>, dim_geo |-> <<>>,
     dim_segment |-> <<>>, has_dwh_data |-> FALSE, dwh_data |-> <<>>]

FileNames == {"dim_customer", "dim_geo", "dim_time", "dim_segment",
              "fact_customer_status"}

NoFile == [exists |-> FALSE, header |-> <<>>, rows |-> <<>>]

\* the columns of the cleaned table
SourceColumns == UNION { DOMAIN r : r \in SourceRows }

\* the source columns each builder subscripts
geo_reads      == {"Geography"}
segment_reads  == {"AgeGroup", "IncomeGroup"}
customer_reads == {"Gender", "Age", "Tenure"}
fact_reads     == {"Geography", "AgeGroup", "IncomeGroup", "Balance",
                   "EstimatedSalary", "NumOfProducts", "CreditScore",
                   "HasCrCard", "IsActiveMember", "Exited"}

\* df.get(column): a missing column is tolerated
raises_nothing(reads) == FALSE

\* df[c] on a table without column c raises KeyError
raises_KeyError(reads) == ~(reads \subseteq columns)

\* the projection naming the measures before the keys
fact_columns_measures_first ==
    <<"balance", "estimated_salary", "num_of_products", "credit_score",
      "has_credit_card", "is_active_member", "churn_flag",
      "customer_key", "time_key", "geo_key", "segment_key">>

\* the columns of the fact table, in the order the projection names them
fact_columns ==
    <<"customer_key", "time_key", "geo_key", "segment_key", "balance",
      "estimated_salary", "num_of_products", "credit_score",
      "has_credit_card", "is_active_member", "churn_flag">>

\* the columns of each output table, in the order its builder names them
output_columns(name) ==
    CASE name = "dim_customer" ->
             <<"customer_key", "customer_id", "gender", "age", "tenure">>
      [] name = "dim_geo"      -> <<"geo_key", "country">>
      [] name = "dim_time"     -> <<"time_key", "year", "month", "quarter">>
      [] name = "dim_segment"  -> <<"segment_key", "age_group", "income_group">>
      [] name = "fact_customer_status" -> fact_columns

\* table.to_csv(FILE, index=False) opening FILE for append
file_appended(old, name, table) ==
    [exists |-> TRUE,
     header |-> output_columns(name),
     rows   |-> old.rows \o [i \in 1..Len(table) |-> CsvRow(table[i])]]

\* table.to_csv(FILE, index=False): FILE is created or truncated, then holds
\* the header line and one line per row
file_written(old, name, table) ==
    [exists |-> TRUE,
     header |-> output_columns(name),
     rows   |-> [i \in 1..Len(table) |-> CsvRow(table[i])]]

NoPrev == [kind |-> "none", df |-> EmptyFrame, dim_geo |-> <<>>,
           dim_segment |-> <<>>]

----------------------------------------------------------------------------
(* run_etl_pipeline, statement by statement *)

Init ==
    /\ pc = "start"
    /\ clean_file \in CleanFiles
    /\ df = EmptyFrame
    /\ dim_geo = <<>> /\ dim_time = <<>> /\ dim_segment = <<>>
    /\ dim_customer = <<>> /\ fact = <<>>
    /\ files = [f \in FileNames |-> NoFile]
    /\ error = ""
    /\ prev = NoPrev
    /\ columns = SourceColumns
    /\ written = {}
    /\ df_processed = EmptyFrame
    /\ dashboard = NotLoaded

\* df = pd.read_csv(input_file)
LoadCleanData ==
    /\ pc = "start"
    /\ df' = read_csv(clean_file)
    /\ pc' = "loaded"
    /\ UNCHANGED <<clean_file, dim_geo, dim_time, dim_segment, dim_customer,
                   fact, files, error, prev, columns, written, df_processed, dashboard>>

\* a builder raised: the exception leaves run_etl_pipeline
Raise(e) ==
    /\ pc' = "failed"
    /\ error' = e

\* dim_geo = build_dim_geo(df)
BuildDimGeo ==
    /\ pc = "loaded"
    /\ IF raises_KeyError(geo_reads)
       THEN Raise("KeyError") /\ UNCHANGED dim_geo
       ELSE IF build_dim_geo_raises(df)
       THEN Raise("TypeError") /\ UNCHANGED dim_geo
       ELSE /\ pc' = "dim_geo"
            /\ dim_geo' = build_dim_geo(df)
            /\ UNCHANGED error
    /\ UNCHANGED <<clean_file, df, dim_time, dim_segment, dim_customer, fact,
                   files, prev, columns, written, df_processed, dashboard>>

\* dim_time = build_dim_time()
BuildDimTime ==
    /\ pc = "dim_geo"
    /\ dim_time' = build_dim_time
    /\ pc' = "dim_time"
    /\ UNCHANGED <<clean_file, df, dim_geo, dim_segment, dim_customer, fact,
                   files, error, prev, columns, written, df_processed, dashboard>>

\* dim_segment = build_dim_segment(df)
BuildDimSegment ==
    /\ pc = "dim_time"
    /\ IF raises_KeyError(segment_reads)
       THEN Raise("KeyError") /\ UNCHANGED dim_segment
       ELSE /\ pc' = "dim_segment"
            /\ dim_segment' = build_dim_segment(df)
            /\ UNCHANGED error
    /\ UNCHANGED <<clean_file, df, dim_geo, dim_time, dim_customer, fact,
                   files, prev, columns, written, df_processed, dashboard>>

\* dim_customer = build_dim_customer(df)
BuildDimCustomer ==
    /\ pc = "dim_segment"
    /\ IF raises_KeyError(customer_reads)
       THEN Raise("KeyError") /\ UNCHANGED dim_customer
       ELSE /\ pc' = "dim_customer"
            /\ dim_customer' = build_dim_customer(df)
            /\ UNCHANGED error
    /\ UNCHANGED <<clean_file, df, dim_geo, dim_time, dim_segment, fact,
                   files, prev, columns, written, df_processed, dashboard>>

\* build_fact_customer_status with fact = df in place of fact = df.copy(): the
\* two key columns are assigned to the caller's table
BuildFact_no_copy ==
    /\ pc = "dim_customer"
    /\ IF raises_KeyError(fact_reads)
       THEN Raise("KeyError") /\ UNCHANGED <<fact, df, columns>>
       ELSE /\ pc' = "fact"
            /\ fact' = build_fact_customer_status(df, dim_customer, dim_geo,
                                                  dim_time, dim_segment)
            /\ df' = [df EXCEPT !.rows =
                         [i \in 1..Len(df.rows) |->
                             df.rows[i] @@ [customer_key |-> i, time_key |-> 1]]]
            /\ columns' = columns \cup {"customer_key", "time_key"}
            /\ UNCHANGED error
    /\ UNCHANGED <<clean_file, dim_geo, dim_time, dim_segment,
                   dim_customer, files, prev, written, df_processed, dashboard>>

\* fact = build_fact_customer_status(df, dim_customer, dim_geo, dim_time,
\* dim_segment): the builder works on df.copy() and on the frames merge
\* returns, its five arguments are left as they were
BuildFact ==
    /\ pc = "dim_customer"
    /\ IF raises_KeyError(fact_reads)
       THEN Raise("KeyError") /\ UNCHANGED fact
       ELSE /\ pc' = "fact"
            /\ fact' = build_fact_customer_status(df, dim_customer, dim_geo,
                                                  dim_time, dim_segment)
            /\ UNCHANGED error
    /\ UNCHANGED <<clean_file, df, dim_geo, dim_time, dim_segment,
                   dim_customer, files, prev, columns, written, df_processed, dashboard>>

\* one table.to_csv(FILE, index=False) of save_dimension_and_fact_tables
WriteFile(at, name, table, next) ==
    /\ pc = at
    /\ files' = [files EXCEPT ![name] = file_written(files[name], name, table)]
    /\ written' = written \cup {name}
    /\ pc' = next
    /\ UNCHANGED <<clean_file, df, dim_geo, dim_time, dim_segment,
                   dim_customer, fact, error, prev, columns, df_processed, dashboard>>

\* dim_customer written as soon as it is built, before the fact build
SaveDimCustomer_early ==
    WriteFile("dim_customer", "dim_customer", dim_customer, "saved_customer")

\* the time dimension written in the place of the geography dimension
SaveDimGeo_writes_time ==
    WriteFile("saved_customer", "dim_time", dim_time, "saved_geo")

SaveDimCustomer == WriteFile("fact", "dim_customer", dim_customer, "saved_customer")
SaveDimGeo      == WriteFile("saved_customer", "dim_geo", dim_geo, "saved_geo")
SaveDimTime     == WriteFile("saved_geo", "dim_time", dim_time, "saved_time")
SaveDimSegment  == WriteFile("saved_time", "dim_segment", dim_segment, "saved_segment")
SaveFact        == WriteFile("saved_segment", "fact_customer_status", fact, "done")

Next ==
    \/ LoadCleanData
    \/ BuildDimGeo
    \/ BuildDimTime
    \/ BuildDimSegment
    \/ BuildDimCustomer
    \/ BuildFact
    \/ SaveDimCustomer
    \/ SaveDimGeo
    \/ SaveDimTime
    \/ SaveDimSegment
    \/ SaveFact

Spec == Init /\ [][Next]_vars

----------------------------------------------------------------------------
(* The builders called directly on the table preprocess_data returns, then
   on the same table saved by save_clean_data and read back *)

\* rows of a preprocessed table: clean_data has dropped the rows with a missing
\* value, pd.cut leaves AgeGroup missing for an Age outside the bins
MemoryRows ==
    { c @@ [Geography |-> g, AgeGroup |-> a, IncomeGroup |-> i] :
        c \in Customers, g \in GeographyValues \ {NaN},
        a \in AgeGroupValues, i \in IncomeGroupValues }

MemoryRowSeqs == UNION {[1..n -> MemoryRows] : n \in 0..MaxRows} \cup {ExampleRows}

\* row labels of a table of n rows: 0..n-1, or 1..n after dropna dropped the
\* first row
Index(n, dropped) == IF dropped THEN [i \in 1..n |-> i] ELSE RangeIndex(n)

\* pd.cut / pd.qcut give ordered categoricals
MemoryFrames ==
    { [index |-> Index(Len(r), dropped), dtype |-> "category", rows |-> r] :
        r \in MemoryRowSeqs, dropped \in BOOLEAN }

Snapshot(kind) == [kind |-> kind, df |-> df, dim_geo |-> dim_geo,
                   dim_segment |-> dim_segment]

InitDirect ==
    /\ pc = "loaded"
    /\ clean_file = <<>>
    /\ df \in MemoryFrames
    /\ dim_geo = <<>> /\ dim_time = <<>> /\ dim_segment = <<>>
    /\ dim_customer = <<>> /\ fact = <<>>
    /\ files = [f \in FileNames |-> NoFile]
    /\ error = ""
    /\ prev = NoPrev
    /\ columns = SourceColumns
    /\ written = {}
    /\ df_processed = EmptyFrame
    /\ dashboard = NotLoaded

\* save_clean_data(df): df.to_csv(CLEAN_CHURN_FILE, index=False); the tables
\* built so far are kept aside and the ETL starts afresh on the file
SaveCleanData ==
    /\ pc = "fact"
    /\ prev.kind = "none"
    /\ clean_file' = to_csv(df)
    /\ prev' = Snapshot("saved")
    /\ pc' = "start"
    /\ df' = EmptyFrame
    /\ dim_geo' = <<>> /\ dim_time' = <<>> /\ dim_segment' = <<>>
    /\ dim_customer' = <<>> /\ fact' = <<>>
    /\ UNCHANGED <<files, error, columns, written, df_processed, dashboard>>

NextDirect ==
    \/ BuildDimGeo
    \/ BuildDimTime
    \/ BuildDimSegment
    \/ BuildDimCustomer
    \/ BuildFact
    \/ SaveCleanData
    \/ LoadCleanData

SpecDirect == InitDirect /\ [][NextDirect]_vars

----------------------------------------------------------------------------
(* build_dim_geo on a source and on the same source with its rows reordered *)

Permute(d, p) ==
    [index |-> [i \in 1..Len(d.rows) |-> d.index[p[i]]],
     dtype |-> d.dtype,
     rows  |-> [i \in 1..Len(d.rows) |-> d.rows[p[i]]]]

\* the caller reorders the rows of the source and builds again
Reorder ==
    /\ pc = "dim_geo"
    /\ prev.kind = "none"
    /\ \E p \in Permutations(1..Len(df.rows)) :
          /\ Permute(df, p) # df
          /\ df' = Permute(df, p)
    /\ prev' = Snapshot("reordered")
    /\ pc' = "loaded"
    /\ dim_geo' = <<>>
    /\ UNCHANGED <<clean_file, dim_time, dim_segment, dim_customer, fact,
                   files, error, columns, written, df_processed, dashboard>>

NextReorder ==
    \/ LoadCleanData
    \/ BuildDimGeo
    \/ Reorder

SpecReorder == Init /\ [][NextReorder]_vars

----------------------------------------------------------------------------
(* build_fact_customer_status called on a source with dimension tables the
   caller supplies: built from another snapshot of the source, or holding a
   join value in more than one row *)

GivenRows ==
    { ExampleCustomer @@ [Geography |-> g, AgeGroup |-> a, IncomeGroup |-> Low] :
        g \in {France, Germany}, a \in {Le25, A26_35} }

GivenSources ==
    { [index |-> RangeIndex(Len(r)), dtype |-> "object", rows |-> r] :
        r \in UNION {[1..n -> GivenRows] : n \in 0..MaxRows} }

\* geography tables keyed 1..n, any countries in any order, repeats included
GivenGeoDims ==
    { [i \in 1..Len(c) |-> [geo_key |-> i, country |-> c[i]]] :
        c \in UNION {[1..n -> {France, Germany}] : n \in 0..MaxRows} }

\* segment tables keyed 1..n, any segments in any order, repeats included
GivenSegmentDims ==
    { [i \in 1..Len(a) |->
          [segment_key |-> i, age_group |-> a[i], income_group |-> Low]] :
        a \in UNION {[1..n -> {Le25, A26_35}] : n \in 0..MaxRows} }

InitFact ==
    /\ pc = "dim_customer"
    /\ clean_file = <<>>
    /\ df \in GivenSources
    /\ dim_geo \in GivenGeoDims
    /\ dim_time = build_dim_time
    /\ dim_segment \in GivenSegmentDims
    /\ dim_customer = build_dim_customer(df)
    /\ fact = <<>>
    /\ files = [f \in FileNames |-> NoFile]
    /\ error = ""
    /\ prev = NoPrev
    /\ columns = SourceColumns
    /\ written = {}
    /\ df_processed = EmptyFrame
    /\ dashboard = NotLoaded

NextFact == BuildFact

SpecFact == InitFact /\ [][NextFact]_vars

----------------------------------------------------------------------------
(* run_etl_pipeline on a cleaned CSV that may lack one column, with the output
   directory empty or holding the files of an earlier run *)

\* the headers a cleaned CSV can have: all columns, or all but one
SchemaColumnSets ==
    {SourceColumns} \cup { SourceColumns \ {c} : c \in SourceColumns }

SchemaFiles == { to_csv(d) : d \in GivenSources }

\* the five tables run_etl_pipeline builds from the source d
tables_of(d) ==
    [dim_customer |-> build_dim_customer(d),
     dim_geo      |-> build_dim_geo(d),
     dim_time     |-> build_dim_time,
     dim_segment  |-> build_dim_segment(d),
     fact_customer_status |->
         build_fact_customer_status(d, build_dim_customer(d), build_dim_geo(d),
                                    build_dim_time, build_dim_segment(d))]

NoFiles == [f \in FileNames |-> NoFile]

\* the files an earlier run on the three-row example left
OldFiles ==
    LET old == tables_of(read_csv(to_csv([rows |-> ExampleRows])))
    IN  [f \in FileNames |-> file_written(NoFile, f, old[f])]

InitSchema ==
    /\ pc = "start"
    /\ clean_file \in SchemaFiles
    /\ columns \in SchemaColumnSets
    /\ df = EmptyFrame
    /\ dim_geo = <<>> /\ dim_time = <<>> /\ dim_segment = <<>>
    /\ dim_customer = <<>> /\ fact = <<>>
    /\ files \in {NoFiles, OldFiles}
    /\ error = ""
    /\ prev = NoPrev
    /\ written = {}
    /\ df_processed = EmptyFrame
    /\ dashboard = NotLoaded

SpecSchema == InitSchema /\ [][Next]_vars

----------------------------------------------------------------------------
(* run_etl_pipeline run once, then once more on the same or on another input,
   over an output directory that is empty or holds earlier files; the five
   to_csv statements of save_dimension_and_fact_tables taken in any order *)

\* the table save_dimension_and_fact_tables writes to each file
table_built(name) ==
    CASE name = "dim_customer" -> dim_customer
      [] name = "dim_geo"      -> dim_geo
      [] name = "dim_time"     -> dim_time
      [] name = "dim_segment"  -> dim_segment
      [] name = "fact_customer_status" -> fact

InitRuns ==
    /\ pc = "start"
    /\ clean_file \in SchemaFiles
    /\ columns = SourceColumns
    /\ df = EmptyFrame
    /\ dim_geo = <<>> /\ dim_time = <<>> /\ dim_segment = <<>>
    /\ dim_customer = <<>> /\ fact = <<>>
    /\ files \in {NoFiles, OldFiles}
    /\ error = ""
    /\ prev = NoPrev
    /\ written = {}
    /\ df_processed = EmptyFrame
    /\ dashboard = NotLoaded

\* one of the five to_csv statements, whichever comes next
WriteTable(name) ==
    /\ pc = "fact"
    /\ name \notin written
    /\ files' = [files EXCEPT
                    ![name] = file_written(files[name], name, table_built(name))]
    /\ written' = written \cup {name}
    /\ pc' = IF written' = FileNames THEN "done" ELSE "fact"
    /\ UNCHANGED <<clean_file, df, dim_geo, dim_time, dim_segment,
                   dim_customer, fact, error, prev, columns, df_processed, dashboard>>

\* run_etl_pipeline is called again, on the same cleaned CSV or on another;
\* the files of the first run are kept aside for comparison
RunAgain ==
    /\ pc = "done"
    /\ prev.kind = "none"
    /\ clean_file' \in SchemaFiles
    /\ prev' = Snapshot("run") @@ [files |-> files, clean_file |-> clean_file]
    /\ pc' = "start"
    /\ df' = EmptyFrame
    /\ dim_geo' = <<>> /\ dim_time' = <<>> /\ dim_segment' = <<>>
    /\ dim_customer' = <<>> /\ fact' = <<>>
    /\ written' = {}
    /\ UNCHANGED <<files, error, columns, df_processed, dashboard>>

NextRuns ==
    \/ LoadCleanData
    \/ BuildDimGeo
    \/ BuildDimTime
    \/ BuildDimSegment
    \/ BuildDimCustomer
    \/ BuildFact
    \/ \E name \in FileNames : WriteTable(name)
    \/ RunAgain

SpecRuns == InitRuns /\ [][NextRuns]_vars

----------------------------------------------------------------------------
(* The four dimension builders called on the loaded source in any order.  A
   table is <<>> until it is built; the sources here have at least one row,
   so that a built table is never <<>>, all their columns and no missing
   value, so that no builder raises *)

InitAnyOrder ==
    /\ pc = "start"
    /\ clean_file \in {f \in SchemaFiles : Len(f) >= 1}
    /\ columns = SourceColumns
    /\ df = EmptyFrame
    /\ dim_geo = <<>> /\ dim_time = <<>> /\ dim_segment = <<>>
    /\ dim_customer = <<>> /\ fact = <<>>
    /\ files = NoFiles
    /\ error = ""
    /\ prev = NoPrev
    /\ written = {}
    /\ df_processed = EmptyFrame
    /\ dashboard = NotLoaded

\* the statement after the four builders is reached when all four have run
AfterBuild(g, t, s, c) ==
    IF g # <<>> /\ t # <<>> /\ s # <<>> /\ c # <<>> THEN "dim_customer"
    ELSE "loaded"

\* build_dim_geo sorting the caller's table in place before reading it
BuildGeoAnyOrder_sorts_source ==
    /\ pc = "loaded" /\ dim_geo = <<>>
    /\ LET p == SortSeq([i \in 1..Len(df.rows) |-> i],
                        LAMBDA i, j : StrLess(df.rows[i].Geography,
                                              df.rows[j].Geography))
       IN  df' = Permute(df, p)
    /\ dim_geo' = build_dim_geo(df)
    /\ pc' = AfterBuild(dim_geo', dim_time, dim_segment, dim_customer)
    /\ UNCHANGED <<clean_file, dim_time, dim_segment, dim_customer, fact,
                   files, error, prev, columns, written, df_processed, dashboard>>

BuildGeoAnyOrder ==
    /\ pc = "loaded" /\ dim_geo = <<>>
    /\ dim_geo' = build_dim_geo(df)
    /\ pc' = AfterBuild(dim_geo', dim_time, dim_segment, dim_customer)
    /\ UNCHANGED <<clean_file, df, dim_time, dim_segment, dim_customer, fact,
                   files, error, prev, columns, written, df_processed, dashboard>>

BuildTimeAnyOrder ==
    /\ pc = "loaded" /\ dim_time = <<>>
    /\ dim_time' = build_dim_time
    /\ pc' = AfterBuild(dim_geo, dim_time', dim_segment, dim_customer)
    /\ UNCHANGED <<clean_file, df, dim_geo, dim_segment, dim_customer, fact,
                   files, error, prev, columns, written, df_processed, dashboard>>

BuildSegmentAnyOrder ==
    /\ pc = "loaded" /\ dim_segment = <<>>
    /\ dim_segment' = build_dim_segment(df)
    /\ pc' = AfterBuild(dim_geo, dim_time, dim_segment', dim_customer)
    /\ UNCHANGED <<clean_file, df, dim_geo, dim_time, dim_customer, fact,
                   files, error, prev, columns, written, df_processed, dashboard>>

BuildCustomerAnyOrder ==
    /\ pc = "loaded" /\ dim_customer = <<>>
    /\ dim_customer' = build_dim_customer(df)
    /\ pc' = AfterBuild(dim_geo, dim_time, dim_segment, dim_customer')
    /\ UNCHANGED <<clean_file, df, dim_geo, dim_time, dim_segment, fact,
                   files, error, prev, columns, written, df_processed, dashboard>>

NextAnyOrder ==
    \/ LoadCleanData
    \/ BuildGeoAnyOrder
    \/ BuildTimeAnyOrder
    \/ BuildSegmentAnyOrder
    \/ BuildCustomerAnyOrder
    \/ BuildFact

SpecAnyOrder == InitAnyOrder /\ [][NextAnyOrder]_vars

----------------------------------------------------------------------------
(* Runs of run_etl_pipeline one after the other over an output directory that
   starts empty, where the load, a builder or a write may raise.  A to_csv
   that raises leaves its file in a state the code does not control: as it
   was, truncated, or holding part of the table *)

FaultRow(g) ==
    ExampleCustomer @@ [Geography |-> g, AgeGroup |-> Le25, IncomeGroup |-> Low]

\* a one-row source, a source build_dim_geo raises on, a two-row source
FaultFiles ==
    { to_csv([rows |-> r]) :
        r \in { <<FaultRow(France)>>,
                <<FaultRow(France), FaultRow(NaN)>>,
                <<FaultRow(Germany), FaultRow(France)>> } }

InitFaults ==
    /\ pc = "start"
    /\ clean_file \in FaultFiles
    /\ columns = SourceColumns
    /\ df = EmptyFrame
    /\ dim_geo = <<>> /\ dim_time = <<>> /\ dim_segment = <<>>
    /\ dim_customer = <<>> /\ fact = <<>>
    /\ files = NoFiles
    /\ error = ""
    /\ prev = NoPrev
    /\ written = {}
    /\ df_processed = EmptyFrame
    /\ dashboard = NotLoaded

\* number of the current run over the directory
RunNumber == IF prev.kind = "none" THEN 1 ELSE prev.run

\* the five to_csv statements in the order of the code
WriteOrder ==
    <<"dim_customer", "dim_geo", "dim_time", "dim_segment",
      "fact_customer_status">>

\* the statement completed just before the to_csv of the file
SavePoint(name) ==
    CASE name = "dim_customer" -> "fact"
      [] name = "dim_geo"      -> "saved_customer"
      [] name = "dim_time"     -> "saved_geo"
      [] name = "dim_segment"  -> "saved_time"
      [] name = "fact_customer_status" -> "saved_segment"

\* a to_csv that raises removes what it had begun to write
PartialWrites_removed(old, name, table) == {NoFile}

\* what a to_csv that raises can leave of its file
PartialWrites(old, name, table) ==
    {old, [exists |-> TRUE, header |-> <<>>, rows |-> <<>>]} \cup
    { [exists |-> TRUE,
       header |-> output_columns(name),
       rows   |-> [i \in 1..k |-> CsvRow(table[i])]] : k \in 0..(Len(table) - 1) }

\* pd.read_csv(input_file) raises: the file is missing or unreadable
LoadFails ==
    /\ pc = "start"
    /\ Raise("FileNotFoundError")
    /\ UNCHANGED <<clean_file, df, dim_geo, dim_time, dim_segment,
                   dim_customer, fact, files, prev, columns, written,
                   df_processed, dashboard>>

\* a to_csv that raises is called again until it succeeds
SaveFails_retry ==
    \E name \in FileNames :
        /\ pc = SavePoint(name)
        /\ pc' = pc
        /\ error' = "OSError"
        /\ files' \in { [files EXCEPT ![name] = c] :
                          c \in PartialWrites(files[name], name, table_built(name)) }
        /\ UNCHANGED <<clean_file, df, dim_geo, dim_time, dim_segment,
                       dim_customer, fact, prev, columns, written,
                   df_processed, dashboard>>

\* one of the five to_csv raises
SaveFails ==
    \E name \in FileNames :
        /\ pc = SavePoint(name)
        /\ Raise("OSError")
        /\ files' \in { [files EXCEPT ![name] = c] :
                          c \in PartialWrites(files[name], name, table_built(name)) }
        /\ UNCHANGED <<clean_file, df, dim_geo, dim_time, dim_segment,
                       dim_customer, fact, prev, columns, written,
                   df_processed, dashboard>>

\* the pipeline is run again after a run that completed or was aborted; the
\* files as the new run finds them are kept aside for comparison
Restart ==
    /\ pc \in {"done", "failed"}
    /\ RunNumber < MaxRuns
    /\ clean_file' \in FaultFiles
    /\ prev' = Snapshot("restart") @@ [run |-> RunNumber + 1, files |-> files]
    /\ pc' = "start"
    /\ df' = EmptyFrame
    /\ dim_geo' = <<>> /\ dim_time' = <<>> /\ dim_segment' = <<>>
    /\ dim_customer' = <<>> /\ fact' = <<>>
    /\ error' = ""
    /\ written' = {}
    /\ UNCHANGED <<files, columns, df_processed, dashboard>>

NextFaults ==
    \/ Next
    \/ LoadFails
    \/ SaveFails
    \/ Restart

SpecFaults == InitFaults /\ [][NextFaults]_vars

----------------------------------------------------------------------------
(* preprocess.py: clean_data, create_age_groups, create_income_groups and
   preprocess_data on a raw table.  Ages and salaries are whole numbers; a
   missing value is modelled in the text columns only *)

AGE_BINS == <<0, 25, 35, 45, 55, 100>>

INCOME_QUANTILES == 3

COLUMNS_TO_DROP == {"RowNumber", "CustomerId", "Surname"}

Whitespace == {32, 9, 10, 13}

\* str.strip(): leading and trailing whitespace removed
RECURSIVE strip(_)
strip(t) ==
    IF t = <<>> THEN t
    ELSE IF Head(t) \in Whitespace THEN strip(Tail(t))
    ELSE IF t[Len(t)] \in Whitespace THEN strip(SubSeq(t, 1, Len(t) - 1))
    ELSE t

\* pd.cut with right=False: bins closed on the left
cut_left_closed(x, bins, labels) ==
    IF x < bins[1] \/ x >= bins[Len(bins)] THEN NaN
    ELSE labels[CHOOSE k \in 1..Len(labels) : bins[k] <= x /\ x < bins[k + 1]]

\* pd.cut(x, bins=bins, labels=labels, include_lowest=True): bins closed on
\* the right, the first one also on the left; no label outside the bins
cut(x, bins, labels) ==
    IF x < bins[1] \/ x > bins[Len(bins)] THEN NaN
    ELSE IF x = bins[1] THEN labels[1]
    ELSE labels[CHOOSE k \in 1..Len(labels) : bins[k] < x /\ x <= bins[k + 1]]

\* the bin edges of pd.qcut(xs, q): the quantiles 0, 1/q, ..., 1 of xs by
\* linear interpolation, each multiplied by q to stay in whole numbers
quantile_edges(xs, q) ==
    LET srt == SortSeq(xs, LAMBDA a, b : a < b)
        n   == Len(xs)
    IN  [k \in 1..(q + 1) |->
            LET pos == (n - 1) * (k - 1)
                lo  == (pos \div q) + 1
            IN  IF pos % q = 0 THEN q * srt[lo]
                ELSE q * srt[lo] + (pos % q) * (srt[lo + 1] - srt[lo])]

\* duplicates='drop' leaves fewer edges than the labels need (also on an
\* empty column, whose quantiles are all missing): ValueError
qcut_raises(xs, q, labels) ==
    \/ xs = <<>>
    \/ Len(unique(quantile_edges(xs, q))) # Len(labels) + 1

\* pd.qcut(xs, q=q, labels=labels, duplicates='drop') at the value x of xs
qcut(x, xs, q, labels) ==
    LET edges == quantile_edges(xs, q)
    IN  IF q * x = edges[1] THEN labels[1]
        ELSE labels[CHOOSE k \in 1..Len(labels) :
                        edges[k] < q * x /\ q * x <= edges[k + 1]]

\* clean_data: the three identifier columns dropped, then dropna(), which
\* keeps the labels of the rows that stay
clean_data(d) ==
    LET keep == SelectSeq([i \in 1..Len(d.rows) |-> i],
                          LAMBDA i : \A c \in DOMAIN d.rows[i] \cap TextColumns :
                                         d.rows[i][c] # NaN)
    IN  [index |-> [k \in 1..Len(keep) |-> d.index[keep[k]]],
         dtype |-> d.dtype,
         rows  |-> [k \in 1..Len(keep) |->
                      [c \in DOMAIN d.rows[keep[k]] \ COLUMNS_TO_DROP |->
                          d.rows[keep[k]][c]]]]

\* create_age_groups: a copy of the table with the AgeGroup column added
create_age_groups(d) ==
    [index |-> d.index,
     dtype |-> "category",
     rows  |-> [i \in 1..Len(d.rows) |->
                  d.rows[i] @@
                  [AgeGroup |-> cut(d.rows[i].Age, AGE_BINS, AGE_LABELS)]]]

\* create_income_groups: a copy of the table with the IncomeGroup column added
create_income_groups(d) ==
    LET salaries == Column(d.rows, "EstimatedSalary")
    IN  [index |-> d.index,
         dtype |-> "category",
         rows  |-> [i \in 1..Len(d.rows) |->
                      d.rows[i] @@
                      [IncomeGroup |-> qcut(d.rows[i].EstimatedSalary, salaries,
                                            INCOME_QUANTILES, INCOME_LABELS)]]]

preprocess_data_raises(d) ==
    qcut_raises(Column(clean_data(d).rows, "EstimatedSalary"),
                INCOME_QUANTILES, INCOME_LABELS)

\* preprocess_data: clean, add the two group columns, strip the two texts
preprocess_data(d) ==
    LET g == create_income_groups(create_age_groups(clean_data(d)))
    IN  [g EXCEPT !.rows =
            [i \in 1..Len(g.rows) |->
                [g.rows[i] EXCEPT !.Geography = strip(@), !.Gender = strip(@)]]]

\* a row of the raw file: the columns of a customer, the three identifier
\* columns and Geography
RawRow(age, salary, geo) ==
    [ExampleCustomer EXCEPT !.Age = age, !.EstimatedSalary = salary] @@
    [Geography |-> geo, RowNumber |-> 1, CustomerId |-> 15634602,
     Surname |-> <<72>>]

RawAges == {-1, 30, 101}

RawSalaries == {101348, 149756}

\* 'France', 'France ' and a missing value
RawGeographies == {France, France \o <<32>>, NaN}

RawRows ==
    { RawRow(a, sal, g) : a \in RawAges, sal \in RawSalaries,
                          g \in RawGeographies }

\* raw tables as load_raw_data returns them
RawFrames ==
    { [index |-> RangeIndex(Len(r)), dtype |-> "object", rows |-> r] :
        r \in UNION {[1..n -> RawRows] : n \in 0..MaxRows} }

InitPreprocess ==
    /\ pc = "raw"
    /\ clean_file = <<>>
    /\ df \in RawFrames
    /\ columns = SourceColumns
    /\ dim_geo = <<>> /\ dim_time = <<>> /\ dim_segment = <<>>
    /\ dim_customer = <<>> /\ fact = <<>>
    /\ files = NoFiles
    /\ error = ""
    /\ prev = NoPrev
    /\ written = {}
    /\ df_processed = EmptyFrame
    /\ dashboard = NotLoaded

\* df_processed = preprocess_data(df)
Preprocess ==
    /\ pc = "raw"
    /\ IF preprocess_data_raises(df)
       THEN Raise("ValueError") /\ UNCHANGED df_processed
       ELSE /\ pc' = "preprocessed"
            /\ df_processed' = preprocess_data(df)
            /\ UNCHANGED error
    /\ UNCHANGED <<clean_file, df, dim_geo, dim_time, dim_segment,
                   dim_customer, fact, files, prev, columns, written,
                   dashboard>>

NextPreprocess == Preprocess

SpecPreprocess == InitPreprocess /\ [][NextPreprocess]_vars

\* the ages around every bin edge, and outside the bins
EdgeAges == {-1, 0, 1, 25, 26, 35, 36, 45, 46, 55, 56, 100, 101}

\* cleaned tables without the group columns, row labels 0..n-1 or 1..n
AgeFrames ==
    { [index |-> Index(Len(a), dropped), dtype |-> "object",
       rows  |-> [i \in 1..Len(a) |->
                    [ExampleCustomer EXCEPT !.Age = a[i]] @@
                    [Geography |-> France]]] :
        a \in UNION {[1..n -> EdgeAges] : n \in 0..MaxRows},
        dropped \in BOOLEAN }

InitAgeGroups ==
    /\ pc = "raw"
    /\ clean_file = <<>>
    /\ df \in AgeFrames
    /\ columns = SourceColumns
    /\ dim_geo = <<>> /\ dim_time = <<>> /\ dim_segment = <<>>
    /\ dim_customer = <<>> /\ fact = <<>>
    /\ files = NoFiles
    /\ error = ""
    /\ prev = NoPrev
    /\ written = {}
    /\ df_processed = EmptyFrame
    /\ dashboard = NotLoaded

\* df_processed = create_age_groups(df): the function works on df.copy()
CreateAgeGroups ==
    /\ pc = "raw"
    /\ df_processed' = create_age_groups(df)
    /\ pc' = "age_groups"
    /\ UNCHANGED <<clean_file, df, dim_geo, dim_time, dim_segment,
                   dim_customer, fact, files, error, prev, columns, written,
                   dashboard>>

NextAgeGroups == CreateAgeGroups

SpecAgeGroups == InitAgeGroups /\ [][NextAgeGroups]_vars

----------------------------------------------------------------------------
(* dashboard.py: ChurnDashboard.load_data, called on the output directory
   after a run of run_etl_pipeline has completed or has failed *)

\* pd.read_csv of an output file: one row per line, text fields parsed
read_table(file) == [i \in 1..Len(file.rows) |-> ParseRow(file.rows[i])]

\* ChurnDashboard.load_data reads a file that is not there
load_data_reads_missing(fs) ==
    /\ fs["fact_customer_status"].exists
    /\ \E f \in {"dim_customer", "dim_geo", "dim_segment"} : ~fs[f].exists

\* DataFrame.merge(right, how='cross'): every left row with every right row
merge_cross(left, right, key) ==
    [k \in 1..(Len(left) * Len(right)) |->
        left[((k - 1) \div Len(right)) + 1] @@ right[((k - 1) % Len(right)) + 1]]

\* DataFrame.merge(right, on=key): the inner join, in the order of the left
\* rows; a left row without a matching right row is dropped
merge_inner(left, right, key) ==
    LET j == SelectSeq(merge_left(Column(left, key), Column(right, key), 1),
                       LAMBDA p : p[2] # 0)
    IN  [k \in 1..Len(j) |-> left[j[k][1]] @@ right[j[k][2]]]

\* self.df, self.fact, the three dimensions and self.dwh_data after load_data
load_data(fs, clean) ==
    IF fs["fact_customer_status"].exists
    THEN LET f == read_table(fs["fact_customer_status"])
             c == read_table(fs["dim_customer"])
             g == read_table(fs["dim_geo"])
             s == read_table(fs["dim_segment"])
         IN  [df |-> read_csv(clean), fact |-> f, dim_customer |-> c,
              dim_geo |-> g, dim_segment |-> s, has_dwh_data |-> TRUE,
              dwh_data |->
                  merge_inner(merge_inner(merge_inner(f, g, "geo_key"),
                                          s, "segment_key"),
                              c, "customer_key")]
    ELSE [NotLoaded EXCEPT !.df = read_csv(clean)]

\* ChurnDashboard() is started on the directory the run has left
LoadData ==
    /\ pc \in {"done", "failed"}
    /\ IF load_data_reads_missing(files)
       THEN Raise("FileNotFoundError") /\ UNCHANGED dashboard
       ELSE /\ pc' = "dashboard"
            /\ dashboard' = load_data(files, clean_file)
            /\ UNCHANGED error
    /\ UNCHANGED <<clean_file, df, dim_geo, dim_time, dim_segment,
                   dim_customer, fact, files, prev, columns, written,
                   df_processed>>

NextDashboard ==
    \/ Next
    \/ LoadData

SpecDashboard == Init /\ [][NextDashboard]_vars

----------------------------------------------------------------------------
(* Properties *)

Steps == <<"start", "loaded", "dim_geo", "dim_time", "dim_segment",
           "dim_customer", "fact", "saved_customer", "saved_geo",
           "saved_time", "saved_segment", "done">>

StepRank(p) == CHOOSE i \in 1..Len(Steps) : Steps[i] = p

\* the run has completed the statement named step
Reached(step) == pc # "failed" /\ StepRank(step) <= StepRank(pc)

N == Len(df.rows)

FactRowsOf(i) == {k \in 1..Len(fact) : fact[k].customer_key = i}

\* C1: in one build on one source table the fact table has exactly as many
\* rows as the source: every source row gives exactly one fact row, none is
\* lost and none is duplicated by the two left joins.
C1_FactCardinality ==
    Reached("fact") =>
        /\ Len(fact) = N
        /\ \A i \in 1..N : Cardinality(FactRowsOf(i)) = 1

C1_Witness ==
    /\ pc = "fact"
    /\ N = 2 /\ Len(fact) = 2
    /\ Len(dim_geo) = 1 /\ Len(dim_segment) = 1

\* C2: in one build every fact row's geo_key and segment_key is non-null and
\* is the key of exactly one row of the geo, respectively segment, dimension.
C2_NoOrphanKeys ==
    Reached("fact") =>
        \A k \in 1..Len(fact) :
            /\ fact[k].geo_key # NullKey
            /\ fact[k].segment_key # NullKey
            /\ Cardinality({j \in 1..Len(dim_geo) :
                              dim_geo[j].geo_key = fact[k].geo_key}) = 1
            /\ Cardinality({j \in 1..Len(dim_segment) :
                              dim_segment[j].segment_key = fact[k].segment_key}) = 1

\* a build whose source has a row with a missing AgeGroup and a missing Geography
C2_Witness ==
    /\ pc = "fact"
    /\ Len(fact) = 2
    /\ \E i \in 1..N : df.rows[i].AgeGroup = NaN
    /\ \E i \in 1..N : df.rows[i].Geography = NaN

\* C3: the fact row of source row i carries the geo_key of the geo-dimension
\* row whose country is row i's Geography and the segment_key of the
\* segment-dimension row whose (age_group, income_group) is the string form of
\* row i's (AgeGroup, IncomeGroup); for the source (France,26-35,Low),
\* (Germany,26-35,Low), (France,46-55,High) the geo_keys are 1,2,1 and the
\* segment_keys 1,1,2.
C3_KeysResolve ==
    Reached("fact") =>
        /\ Len(fact) = N
        /\ \A i \in 1..N :
             /\ \E j \in 1..Len(dim_geo) :
                   /\ dim_geo[j].country = df.rows[i].Geography
                   /\ fact[i].geo_key = dim_geo[j].geo_key
             /\ \E j \in 1..Len(dim_segment) :
                   /\ dim_segment[j].age_group = astype_str(df.rows[i].AgeGroup)
                   /\ dim_segment[j].income_group = astype_str(df.rows[i].IncomeGroup)
                   /\ fact[i].segment_key = dim_segment[j].segment_key
        /\ df.rows = ExampleRows =>
             /\ Column(fact, "geo_key") = <<1, 2, 1>>
             /\ Column(fact, "segment_key") = <<1, 1, 2>>

C3_Witness ==
    /\ pc = "fact"
    /\ df.rows = ExampleRows
    /\ Column(fact, "geo_key") = <<1, 2, 1>>
    /\ Column(fact, "segment_key") = <<1, 1, 2>>

GeographiesOf(d) == {d.rows[i].Geography : i \in 1..Len(d.rows)}
SegmentsOf(d) ==
    {<<astype_str(d.rows[i].AgeGroup), astype_str(d.rows[i].IncomeGroup)>> :
        i \in 1..Len(d.rows)}

\* C4: the surrogate keys of the geo and of the segment dimension are exactly
\* 1..K, without gap or duplicate, K being the number of distinct Geography
\* values (distinct (AgeGroup, IncomeGroup) pairs) of the source, and each
\* distinct value (pair) is in exactly one dimension row.
C4_KeyDensity ==
    /\ Reached("dim_geo") =>
         LET K == Cardinality(GeographiesOf(df))
         IN  /\ Len(dim_geo) = K
             /\ {dim_geo[j].geo_key : j \in 1..Len(dim_geo)} = 1..K
             /\ \A g \in GeographiesOf(df) :
                  Cardinality({j \in 1..Len(dim_geo) : dim_geo[j].country = g}) = 1
    /\ Reached("dim_segment") =>
         LET K == Cardinality(SegmentsOf(df))
         IN  /\ Len(dim_segment) = K
             /\ {dim_segment[j].segment_key : j \in 1..Len(dim_segment)} = 1..K
             /\ \A sg \in SegmentsOf(df) :
                  Cardinality({j \in 1..Len(dim_segment) :
                     <<dim_segment[j].age_group, dim_segment[j].income_group>> = sg}) = 1

\* two rows of the same country and segment, one of another
C4_Witness ==
    /\ pc = "dim_segment"
    /\ N = 3
    /\ Len(dim_geo) = 2
    /\ Len(dim_segment) = 2

\* C5: build_dim_geo assigns the keys in lexicographic order of the country
\* strings: the row with the smaller country has the smaller geo_key, and the
\* smallest country has geo_key 1.
C5_GeoKeysSorted ==
    Reached("dim_geo") =>
        \A a, b \in 1..Len(dim_geo) :
            /\ StrLess(dim_geo[a].country, dim_geo[b].country)
                  => dim_geo[a].geo_key < dim_geo[b].geo_key
            /\ (\A c \in 1..Len(dim_geo) :
                    c # a => StrLess(dim_geo[a].country, dim_geo[c].country))
                  => dim_geo[a].geo_key = 1

\* Germany appears before France in the source
C5_Witness ==
    /\ pc = "dim_geo"
    /\ N = 2
    /\ df.rows[1].Geography = Germany
    /\ df.rows[2].Geography = France
    /\ dim_geo[1].country = France

\* C6: for a source and the same source with its rows reordered, build_dim_geo
\* returns the same (geo_key, country) rows.
C6_GeoOrderIndependent ==
    prev.kind = "reordered" =>
        /\ pc # "failed"
        /\ pc = "dim_geo" => dim_geo = prev.dim_geo

C6_Witness ==
    /\ prev.kind = "reordered"
    /\ pc = "dim_geo"
    /\ Len(dim_geo) = 2
    /\ df.rows[1].Geography # prev.df.rows[1].Geography

\* order of two (age_group, income_group) pairs compared as strings
StringPairLess(p, q) ==
    \/ StrLess(p[1], q[1])
    \/ p[1] = q[1] /\ StrLess(p[2], q[2])

SegmentPair(r) == <<r.age_group, r.income_group>>

\* C7: build_dim_segment assigns the keys 1..K in the order of the distinct
\* (AgeGroup, IncomeGroup) pairs sorted by age group, then income group, both
\* compared as strings.
C7_SegmentKeysStringSorted ==
    Reached("dim_segment") =>
        \A a, b \in 1..Len(dim_segment) :
            /\ dim_segment[a].segment_key = a
            /\ a < b => StringPairLess(SegmentPair(dim_segment[a]),
                                       SegmentPair(dim_segment[b]))

\* C8: build_dim_segment gives a pair the same segment_key on the table with
\* ordered-categorical group values and on the same table with plain strings,
\* as read back from the cleaned CSV.
C8_SegmentKeyRepresentationFree ==
    (prev.kind = "saved" /\ Reached("dim_segment")) =>
        \A a \in 1..Len(prev.dim_segment), b \in 1..Len(dim_segment) :
            SegmentPair(prev.dim_segment[a]) = SegmentPair(dim_segment[b])
                => prev.dim_segment[a].segment_key = dim_segment[b].segment_key

CustomerCopied(i) ==
    /\ dim_customer[i].customer_key = i
    /\ dim_customer[i].gender = df.rows[i].Gender
    /\ dim_customer[i].age = df.rows[i].Age
    /\ dim_customer[i].tenure = df.rows[i].Tenure

C10_CustomerKeyAligned ==
    Reached("fact") =>
        /\ Len(fact) = N
        /\ Len(dim_customer) = N
        /\ \A i \in 1..N :
             /\ fact[i].customer_key = i
             /\ fact[i].customer_key = dim_customer[i].customer_key
             /\ fact[i].credit_score = df.rows[i].CreditScore
             /\ dim_customer[i].age = df.rows[i].Age

C10_Witness ==
    /\ pc = "fact"
    /\ df.index = <<1, 2>>
    /\ df.rows[1].CreditScore # df.rows[2].CreditScore
    /\ fact[2].customer_key = 2
    /\ dim_customer[2].customer_key = 2

\* the source holds a join value the dimension tables passed do not
StaleGeo ==
    \E i \in 1..N : df.rows[i].Geography \notin Range(Column(dim_geo, "country"))

StaleSegment ==
    \E i \in 1..N :
        \A k \in 1..Len(dim_segment) :
            <<dim_segment[k].age_group, dim_segment[k].income_group>> #
            <<astype_str(df.rows[i].AgeGroup), astype_str(df.rows[i].IncomeGroup)>>

\* C11: with dimension tables that miss a join value of the source the fact
\* build fails with a join-integrity error; no fact row is ever returned with
\* a null geo_key or segment_key
C11_StaleDimensionsRejected ==
    /\ pc # "dim_customer" /\ (StaleGeo \/ StaleSegment)
          => pc = "failed" /\ error = "JoinIntegrityError" /\ fact = <<>>
    /\ \A k \in 1..Len(fact) :
          fact[k].geo_key # NullKey /\ fact[k].segment_key # NullKey

\* C12: for every geography and segment table passed, tables holding a join
\* value in several rows included, the fact builder returns exactly as many
\* rows as the source has
C12_FactCardinalityAnyDimensions ==
    pc = "fact" => Len(fact) = N

\* number of rows of the source joined with dim_geo
GeoJoinRows ==
    Len(merge_left(Column(df.rows, "Geography"), Column(dim_geo, "country"), 1))

\* C13: the row count is checked after each join; a join result whose row
\* count differs from the source's fails the build with a cardinality error
\* and no fact table is returned
C13_CardinalityChecked ==
    pc # "dim_customer" /\ (GeoJoinRows # N \/ Len(fact) # N)
        => pc = "failed" /\ error = "CardinalityError"

\* C14: when the source lacks a column a builder reads, the run does not get
\* past that builder; whichever column is missing the run never has its fact
\* table, and it writes or overwrites none of the five output files
C14_MissingColumnWritesNothing ==
    /\ raises_KeyError(geo_reads)      => ~Reached("dim_geo")
    /\ raises_KeyError(segment_reads)  => ~Reached("dim_segment")
    /\ raises_KeyError(customer_reads) => ~Reached("dim_customer")
    /\ raises_KeyError(fact_reads)     => ~Reached("fact")
    /\ columns # SourceColumns =>
          /\ written = {}
          /\ files \in {NoFiles, OldFiles}
          /\ ~Reached("fact")

\* Balance is missing: the four dimensions were built, the fact build raised,
\* and the files of the earlier run are as they were
C14_Witness ==
    /\ pc = "failed" /\ error = "KeyError"
    /\ "Balance" \notin columns
    /\ Len(dim_customer) = 2
    /\ files = OldFiles

\* the source has rows and every Geography value is missing
GeographyEntirelyNull ==
    N > 0 /\ \A i \in 1..N : df.rows[i].Geography = NaN

\* build_dim_geo was called and raised
GeoBuildFailed == pc = "failed" /\ dim_time = <<>>

\* C15: build_dim_geo fails when Geography is absent or entirely null, and
\* in no other case: it succeeds when at least one Geography value is not
\* null, also when some are
C15_GeoFailsOnlyWhenAbsentOrNull ==
    pc \notin {"start", "loaded"} =>
        (GeoBuildFailed <=> ("Geography" \notin columns \/ GeographyEntirelyNull))

\* C16: build_dim_time returns exactly one row, with time_key 1 and the
\* configured year, month and quarter, whatever the source table is
C16_TimeDimensionFixed ==
    Reached("dim_time") =>
        /\ Len(dim_time) = 1
        /\ DOMAIN dim_time[1] = {"time_key", "year", "month", "quarter"}
        /\ dim_time[1].time_key = 1
        /\ dim_time[1].year = SNAPSHOT_YEAR
        /\ dim_time[1].month = SNAPSHOT_MONTH
        /\ dim_time[1].quarter = SNAPSHOT_QUARTER

C16_Witness ==
    /\ pc = "dim_time"
    /\ N = 2
    /\ df.rows[1].Geography # df.rows[2].Geography
    /\ dim_time[1].month = SNAPSHOT_MONTH

\* C17: every fact row carries the time_key of the single row of the time
\* dimension the fact builder was given
C17_TimeKeyBroadcast ==
    Reached("fact") =>
        /\ Len(dim_time) = 1
        /\ \A k \in 1..Len(fact) : fact[k].time_key = dim_time[1].time_key

C17_Witness ==
    /\ pc = "fact"
    /\ Len(fact) = 2
    /\ fact[1].time_key = dim_time[1].time_key
    /\ fact[2].time_key = dim_time[1].time_key

FactFile == files["fact_customer_status"]

\* C18: the fact table has exactly the eleven columns customer_key, time_key,
\* geo_key, segment_key, balance, estimated_salary, num_of_products,
\* credit_score, has_credit_card, is_active_member, churn_flag, in that order,
\* and none of the other source columns or join helper columns
C18_FactColumns ==
    LET eleven == <<"customer_key", "time_key", "geo_key", "segment_key",
                    "balance", "estimated_salary", "num_of_products",
                    "credit_score", "has_credit_card", "is_active_member",
                    "churn_flag">>
        helpers == {"country", "age_group", "income_group", "AgeGroup_str",
                    "IncomeGroup_str"}
    IN  /\ Reached("fact") =>
              /\ output_columns("fact_customer_status") = eleven
              /\ \A k \in 1..Len(fact) :
                    /\ DOMAIN fact[k] = Range(eleven)
                    /\ DOMAIN fact[k] \cap (helpers \cup SourceColumns) = {}
        /\ FactFile.exists =>
              /\ FactFile.header = eleven
              /\ \A k \in 1..Len(FactFile.rows) :
                    DOMAIN FactFile.rows[k] = Range(eleven)

C18_Witness ==
    /\ pc = "done"
    /\ Len(fact) = 2
    /\ Len(FactFile.header) = 11
    /\ FactFile.header[5] = "balance"
    /\ "Balance" \notin DOMAIN fact[1]

\* C19: the fact builder leaves the five tables it is given as they were:
\* the source keeps its rows and columns, the four dimensions keep their rows
\* and keys
C19_FactBuildReadOnly ==
    [][pc = "dim_customer" =>
          /\ df' = df
          /\ columns' = columns
          /\ dim_customer' = dim_customer
          /\ dim_geo' = dim_geo
          /\ dim_time' = dim_time
          /\ dim_segment' = dim_segment]_vars

\* a build on a source of two rows, with dimension tables of two rows
C19_Witness ==
    /\ pc = "fact"
    /\ N = 2
    /\ Len(fact) >= 2
    /\ Len(dim_geo) = 2
    /\ Len(dim_segment) = 2
    /\ \A i \in 1..N : "customer_key" \notin DOMAIN df.rows[i]

\* the file holds the header of the table and, line by line and field by
\* field, the text of the table's rows
HoldsExactly(file, name, table) ==
    /\ file.exists
    /\ file.header = output_columns(name)
    /\ Len(file.rows) = Len(table)
    /\ \A i \in 1..Len(table) :
          /\ DOMAIN file.rows[i] = Range(output_columns(name))
          /\ \A c \in DOMAIN table[i] :
                file.rows[i][c] =
                    IF c \in TextColumns /\ table[i][c] = NaN THEN EmptyStr
                    ELSE table[i][c]

\* C20: after a completed run each of the five files holds exactly the table
\* built in that run, whatever it held before and in whatever order the five
\* files were written; a second run on the same input leaves the files of the
\* first
C20_FilesHoldTheRun ==
    pc = "done" =>
        /\ \A f \in FileNames : HoldsExactly(files[f], f, table_built(f))
        /\ (prev.kind = "run" /\ prev.clean_file = clean_file)
              => files = prev.files

\* a second run on the same two-row input, over the files of the first
C20_Witness ==
    /\ pc = "done"
    /\ prev.kind = "run"
    /\ prev.clean_file = clean_file
    /\ Len(fact) = 2
    /\ Len(files["fact_customer_status"].rows) = 2
    /\ Len(files["dim_geo"].rows) = 2

\* C21: in a run the source is loaded once, by the first statement; the fact
\* build starts when the four dimensions of this run are complete, on the
\* source that was loaded and on those four tables; no file is written
\* before the fact table is built
C21_RunOrder ==
    [][/\ df' # df => pc = "start" /\ pc' = "loaded"
       /\ pc' = "loaded" => pc = "start" /\ df' = read_csv(clean_file)
       /\ pc' # "start"
       /\ (pc' = "fact" \/ fact' # fact) =>
             /\ pc = "dim_customer"
             /\ df = read_csv(clean_file)
             /\ dim_geo = build_dim_geo(df)
             /\ dim_time = build_dim_time
             /\ dim_segment = build_dim_segment(df)
             /\ dim_customer = build_dim_customer(df)
             /\ fact' = build_fact_customer_status(df, dim_customer, dim_geo,
                                                   dim_time, dim_segment)
             /\ written = {}
       /\ files' # files => Reached("fact") /\ fact' = fact]_vars

C21_Witness ==
    /\ pc = "done"
    /\ N = 2
    /\ df.rows[1] # df.rows[2]
    /\ Len(fact) = 2
    /\ written = FileNames

\* the source as run_etl_pipeline loads it
LoadedSource == read_csv(clean_file)

\* C22: the dimension builders leave the source as it was loaded, and
\* whatever the order in which the four are called, every table built is the
\* one run_etl_pipeline builds in its own order
C22_BuildersIndependent ==
    pc # "start" =>
        /\ df = LoadedSource
        /\ dim_geo \in {<<>>, tables_of(LoadedSource).dim_geo}
        /\ dim_time \in {<<>>, tables_of(LoadedSource).dim_time}
        /\ dim_segment \in {<<>>, tables_of(LoadedSource).dim_segment}
        /\ dim_customer \in {<<>>, tables_of(LoadedSource).dim_customer}
        /\ pc \in {"dim_customer", "fact"} =>
              /\ dim_geo # <<>> /\ dim_time # <<>>
              /\ dim_segment # <<>> /\ dim_customer # <<>>
        /\ pc = "fact" => fact = tables_of(LoadedSource).fact_customer_status

\* the customer and segment dimensions built before the geography dimension,
\* on a source of two different rows given with the larger country first
C22_Witness ==
    /\ pc = "loaded"
    /\ N = 2
    /\ StrLess(df.rows[2].Geography, df.rows[1].Geography)
    /\ dim_customer # <<>>
    /\ dim_segment # <<>>
    /\ dim_geo = <<>>
    /\ dim_time = <<>>

\* C23: within a run no step is attempted twice: every step either completes
\* the next statement or fails, and after a failure or the end of the run
\* nothing more happens in that run
C23_NoRetry ==
    [][pc' # "start" =>
          /\ pc \notin {"failed", "done"}
          /\ \/ pc' = "failed"
             \/ StepRank(pc') = StepRank(pc) + 1]_vars

\* the second write of a run failed after the first succeeded
C23_Witness ==
    /\ pc = "failed"
    /\ error = "OSError"
    /\ written = {"dim_customer"}
    /\ Len(fact) = 2

\* C24: every row of the table preprocess_data returns has an AgeGroup and
\* an IncomeGroup, also a row whose Age is outside the bins 0..100
C24_GroupsNeverNull ==
    pc = "preprocessed" =>
        \A i \in 1..Len(df_processed.rows) :
            /\ df_processed.rows[i].AgeGroup # NaN
            /\ df_processed.rows[i].IncomeGroup # NaN

\* the output files as the current run found them
FilesAtStart == IF prev.kind = "none" THEN NoFiles ELSE prev.files

\* the files written so far by the current run, in the order of the code
WrittenCount == Cardinality(written)

\* the file whose to_csv raised, if the run ended on a failed write
FailedWrite ==
    IF pc = "failed" /\ error = "OSError"
    THEN {WriteOrder[WrittenCount + 1]}
    ELSE {}

\* C25: the files a run has written are the first ones of the order customer,
\* geo, time, segment, fact, each holding its table; when a write fails,
\* every file after the failed one is as it was before the run
C25_WrittenPrefix ==
    /\ written = {WriteOrder[i] : i \in 1..WrittenCount}
    /\ \A f \in written : HoldsExactly(files[f], f, table_built(f))
    /\ \A f \in FileNames \ (written \cup FailedWrite) :
          files[f] = FilesAtStart[f]

\* the third write of a second run failed part-way, over the files of a
\* first run that completed
C25_Witness ==
    /\ pc = "failed"
    /\ error = "OSError"
    /\ written = {"dim_customer", "dim_geo"}
    /\ prev.kind = "restart"
    /\ prev.files["fact_customer_status"].exists
    /\ files["dim_time"] # prev.files["dim_time"]
    /\ files["dim_segment"] = prev.files["dim_segment"]
    /\ files["dim_segment"].exists
    /\ files["dim_geo"] # prev.files["dim_geo"]

\* C26: from an empty output directory, after any sequence of runs that
\* completed or were aborted, the fact file exists only if the customer, geo
\* and segment dimension files exist, so load_data never reads a missing file
C26_FactFileImpliesDimFiles ==
    /\ files["fact_customer_status"].exists =>
          /\ files["dim_customer"].exists
          /\ files["dim_geo"].exists
          /\ files["dim_segment"].exists
    /\ ~load_data_reads_missing(files)

\* a second run aborted on its first write, which truncated the customer
\* file, with the fact file of the first run in place
C26_Witness ==
    /\ pc = "failed"
    /\ error = "OSError"
    /\ written = {}
    /\ prev.kind = "restart"
    /\ files["fact_customer_status"].exists
    /\ files["dim_customer"].exists
    /\ files["dim_customer"].header = <<>>
\* C27: the fact rows keep the order and the values of the source: the i-th
\* fact row carries the seven measures of the i-th source row
C27_FactRowsKeepSource ==
    Reached("fact") =>
        /\ Len(fact) = N
        /\ \A i \in 1..N :
              /\ fact[i].balance = df.rows[i].Balance
              /\ fact[i].estimated_salary = df.rows[i].EstimatedSalary
              /\ fact[i].num_of_products = df.rows[i].NumOfProducts
              /\ fact[i].credit_score = df.rows[i].CreditScore
              /\ fact[i].has_credit_card = df.rows[i].HasCrCard
              /\ fact[i].is_active_member = df.rows[i].IsActiveMember
              /\ fact[i].churn_flag = df.rows[i].Exited

\* two different customers, the first in the country and the segment that sort
\* last, so that both joins match the rows against the dimension order
C27_Witness ==
    /\ pc = "fact"
    /\ N = 2
    /\ df.rows[1].Balance # df.rows[2].Balance
    /\ df.rows[1].Exited # df.rows[2].Exited
    /\ fact[1].geo_key = 2
    /\ fact[2].geo_key = 1
    /\ fact[1].segment_key > fact[2].segment_key
    /\ fact[1].balance = df.rows[1].Balance
\* the columns of the fact file in a row of the joined table
FactPart(row) == [c \in Range(fact_columns) |-> row[c]]

\* C28: loading the five files a completed run has left, the dashboard's
\* dwh_data has exactly one row per fact row, in the order of the fact rows,
\* each with the country, segment and customer of its keys; load_data leaves
\* the files as they are
C28_DashboardJoin ==
    [][pc' = "dashboard" =>
          /\ files' = files
          /\ pc = "done" =>
                /\ dashboard'.has_dwh_data
                /\ Len(dashboard'.fact) = Len(fact)
                /\ Len(dashboard'.dwh_data) = Len(dashboard'.fact)
                /\ \A k \in 1..Len(dashboard'.fact) :
                      /\ FactPart(dashboard'.dwh_data[k]) = dashboard'.fact[k]
                      /\ dashboard'.dwh_data[k].country =
                            ParseCell(CsvCell(dim_geo[fact[k].geo_key].country))
                      /\ dashboard'.dwh_data[k].age_group =
                            ParseCell(dim_segment[fact[k].segment_key].age_group)
                      /\ dashboard'.dwh_data[k].age = df.rows[k].Age]_vars

\* the files of a run on two customers of different countries and segments,
\* the first in the country that sorts last
C28_Witness ==
    /\ pc = "dashboard"
    /\ dashboard.has_dwh_data
    /\ Len(dashboard.dwh_data) = 2
    /\ Len(dashboard.dim_geo) = 2
    /\ Len(dashboard.dim_segment) = 2
    /\ dashboard.dwh_data[1].geo_key = 2
    /\ dashboard.dwh_data[1].age # dashboard.dwh_data[2].age
\* the label the right-closed age bins give an integer age
AgeLabel(a) ==
    CASE 0 <= a /\ a <= 25   -> Le25
      [] 26 <= a /\ a <= 35  -> A26_35
      [] 36 <= a /\ a <= 45  -> A36_45
      [] 46 <= a /\ a <= 55  -> A46_55
      [] 56 <= a /\ a <= 100 -> Ge56
      [] OTHER                -> NaN

\* C29: create_age_groups labels every age by the right-closed bins 0..25,
\* 26..35, 36..45, 46..55, 56..100 (age 0 in the first), gives no label to
\* an age below 0 or above 100, keeps the other columns and the row labels,
\* and leaves the table it was given unchanged
C29_AgeBins ==
    [][pc' = "age_groups" =>
          /\ df' = df
          /\ df_processed'.index = df.index
          /\ Len(df_processed'.rows) = N
          /\ \A i \in 1..N :
                /\ df_processed'.rows[i].AgeGroup = AgeLabel(df.rows[i].Age)
                /\ \A c \in DOMAIN df.rows[i] :
                      df_processed'.rows[i][c] = df.rows[i][c]
                /\ "AgeGroup" \notin DOMAIN df.rows[i]]_vars

\* a table with the ages 0 and 101: the first gets '<=25', the second no label
C29_Witness ==
    /\ pc = "age_groups"
    /\ N = 2
    /\ df.rows[1].Age = 0
    /\ df.rows[2].Age = 101
    /\ df_processed.rows[1].AgeGroup = Le25
    /\ df_processed.rows[2].AgeGroup = NaN
    /\ df.index = <<1, 2>>

====
